---------------------------- MODULE Spec2Model ----------------------------
(***************************************************************************)
(* Generational index containers of gen-vec:                               *)
(*   ClosedGenVec   (src/src/closed/gen_vec.rs)                            *)
(*   IndexAllocator (src/src/exposed/index_allocator.rs)                   *)
(*   ExposedGenVec  (src/src/exposed/gen_vec.rs)                           *)
(* A Vec position p of the source is element p+1 of a TLA+ sequence.       *)
(***************************************************************************)
EXTENDS Integers, Sequences, FiniteSets

\* ------------------------------------------------------------- bounds
\* Largest number of positions a Vec of the model may hold.
MaxSlots == 2
\* Largest value the generation counter of a ClosedGenVec may reach.
MaxGen == 3
\* Largest generation a record of an IndexAllocator may reach.
MaxAllocGen == 2
\* Largest generation of a handle used with an ExposedGenVec.
MaxStoreGen == 1
\* Largest `additional` passed to reserve.
MaxReserve == 1
\* Largest length of a free_indices queue.
MaxFree == 3

\* The values of T the callers store: two, so that an overwrite can be told apart.
Values == {1, 2}
\* Positions a caller may name: one position beyond the Vec included.
Slots == 0..MaxSlots

\* ------------------------------------------------------------- data
\* struct Index { index, generation }
Index(index, generation) == [index |-> index, generation |-> generation]
\* Handles presented to a ClosedGenVec, and to an IndexAllocator or ExposedGenVec
Handles == {Index(i, g) : i \in Slots, g \in 0..MaxGen}
AllocHandles == {Index(i, g) : i \in Slots, g \in 0..MaxAllocGen}
\* The handles of the IndexAllocator of alloced_gen_vec, which returns handles
\* one generation beyond the generation of the record
AllocedHandles == {Index(i, g) : i \in Slots, g \in 0..(MaxAllocGen + 1)}

\* Option<Item<T>>: None, and Some(Item { value, generation })
NoneItem == [some |-> FALSE, value |-> 0, generation |-> 0]
Item(value, generation) == [some |-> TRUE, value |-> value, generation |-> generation]

\* Option<T> as returned by get / remove / set
None == [some |-> FALSE, value |-> 0]
Some(value) == [some |-> TRUE, value |-> value]

\* Option::expect: the value of Some, a panic on None
Option_expect(option) ==
    IF option.some
    THEN [panic |-> FALSE, value |-> option.value]
    ELSE [panic |-> TRUE, value |-> 0]

\* The fields of Index in the order of their declaration, which is the order
\* in which the derived comparisons visit them.
Index_fields == <<"index", "generation">>

\* Ord::cmp of usize.
usize_cmp(x, y) == IF x < y THEN "Less" ELSE IF x = y THEN "Equal" ELSE "Greater"

\* #[derive(Ord, PartialOrd)]: the first field, from position k of fields on,
\* on which a and b differ decides; Equal when there is none.
RECURSIVE derive_cmp(_, _, _, _)
derive_cmp(fields, k, a, b) ==
    IF k > Len(fields)
    THEN "Equal"
    ELSE LET ordering == usize_cmp(a[fields[k]], b[fields[k]])
         IN  IF ordering # "Equal" THEN ordering ELSE derive_cmp(fields, k + 1, a, b)

\* Variant of the derived ordering of Index with generation declared first.
Index_cmp_generation_first(a, b) == derive_cmp(<<"generation", "index">>, 1, a, b)

\* Ord::cmp derived for Index.
Index_cmp(a, b) == derive_cmp(Index_fields, 1, a, b)

\* PartialOrd::lt derived for Index.
Index_lt(a, b) == Index_cmp(a, b) = "Less"

\* #[derive(Eq, PartialEq)] for Index: every field compares equal.
Index_eq(a, b) == \A k \in 1..Len(Index_fields) : a[Index_fields[k]] = b[Index_fields[k]]

\* struct AllocatedIndex { is_free, generation }
AllocatedIndex(is_free, generation) == [is_free |-> is_free, generation |-> generation]

\* last_index..(last_index+additional) of reserve, as a sequence
RangeSeq(from, n) == [k \in 1..n |-> from + k - 1]

VARIABLES
    sys,        \* which container the program built: "closed", "allocator", "exposed"
    cv,         \* ClosedGenVec { free_indices, items, generation, length }
    ia,         \* IndexAllocator { free_indices, active_indices }
    ev,         \* ExposedGenVec { items }
    cv_issued,  \* how many times insert returned each handle
    cv_last,    \* per position: the handle insert returned last there (generation, removes so far), -1 if none
    cv_removed, \* handles for which ClosedGenVec::remove returned Some
    ia_issued,  \* how many times allocate returned each handle
    ia_freed,   \* handles that were active when deallocate was applied to them
    ev_last,    \* per position: the last ExposedGenVec write there
    cv_free_order, \* positions remove emptied and no insert has filled since, oldest first
    ia_free_order  \* positions deallocate freed and no allocate has taken since, oldest first

vars == <<sys, cv, ia, ev, cv_issued, cv_last, cv_removed, ia_issued, ia_freed, ev_last,
          cv_free_order, ia_free_order>>

\* ------------------------------------------------------------- ClosedGenVec
\* ClosedGenVec::new
ClosedGenVec_new == [free_indices |-> <<>>, items |-> <<>>, generation |-> 0, length |-> 0]

\* ClosedGenVec::len
ClosedGenVec_len(self) == self.length

\* ClosedGenVec::is_empty
ClosedGenVec_is_empty(self) == self.length <= 0

\* Variant of get that does not compare generations.
ClosedGenVec_get_any_generation(self, index) ==
    IF index.index < Len(self.items) /\ self.items[index.index + 1].some
    THEN Some(self.items[index.index + 1].value)
    ELSE None

\* ClosedGenVec::get
ClosedGenVec_get(self, index) ==
    IF index.index < Len(self.items)
       /\ self.items[index.index + 1].some
       /\ index.generation = self.items[index.index + 1].generation
    THEN Some(self.items[index.index + 1].value)
    ELSE None

\* ClosedGenVec::get_mut, as the Option it returns
ClosedGenVec_get_mut(self, index) ==
    IF index.index < Len(self.items)
       /\ self.items[index.index + 1].some
       /\ index.generation = self.items[index.index + 1].generation
    THEN Some(self.items[index.index + 1].value)
    ELSE None

\* ClosedGenVec::contains
ClosedGenVec_contains(self, index) == ClosedGenVec_get(self, index).some

\* Variant of insert that writes to the popped position without looking at it.
ClosedGenVec_insert_unchecked(self, value) ==
    IF self.free_indices # <<>> /\ Head(self.free_indices) < Len(self.items)
    THEN LET index == Head(self.free_indices)
         IN  [self |-> [self EXCEPT !.free_indices = Tail(@),
                                    !.items[index + 1] = Item(value, self.generation),
                                    !.length = @ + 1],
              ret  |-> Index(index, self.generation)]
    ELSE [self |-> [self EXCEPT !.free_indices = <<>>,
                                !.items = Append(@, Item(value, self.generation)),
                                !.length = @ + 1],
          ret  |-> Index(Len(self.items), self.generation)]

\* Variant of insert whose appended value is reported at the length after the push.
RECURSIVE ClosedGenVec_insert_index_after_push(_, _)
ClosedGenVec_insert_index_after_push(self, value) ==
    IF self.free_indices # <<>>
    THEN LET index  == Head(self.free_indices)
             popped == [self EXCEPT !.free_indices = Tail(@)]
         IN  IF index < Len(self.items) /\ ~self.items[index + 1].some
             THEN [self |-> [popped EXCEPT !.items[index + 1] = Item(value, self.generation),
                                           !.length = @ + 1],
                   ret  |-> Index(index, self.generation)]
             ELSE ClosedGenVec_insert_index_after_push(popped, value)
    ELSE [self |-> [self EXCEPT !.items = Append(@, Item(value, self.generation)),
                                !.length = @ + 1],
          ret  |-> Index(Len(self.items) + 1, self.generation)]

\* Variant of insert that, instead of trying again, writes to a popped position
\* that holds a value.
RECURSIVE ClosedGenVec_insert_overwrite_occupied(_, _)
ClosedGenVec_insert_overwrite_occupied(self, value) ==
    IF self.free_indices # <<>>
    THEN LET index  == Head(self.free_indices)
             popped == [self EXCEPT !.free_indices = Tail(@)]
         IN  IF index < Len(self.items)
             THEN [self |-> [popped EXCEPT !.items[index + 1] = Item(value, self.generation),
                                           !.length = IF self.items[index + 1].some
                                                      THEN @ ELSE @ + 1],
                   ret  |-> Index(index, self.generation)]
             ELSE ClosedGenVec_insert_overwrite_occupied(popped, value)
    ELSE [self |-> [self EXCEPT !.items = Append(@, Item(value, self.generation)),
                                !.length = @ + 1],
          ret  |-> Index(Len(self.items), self.generation)]

\* ClosedGenVec::insert; the result is the store afterwards and the Index returned
RECURSIVE ClosedGenVec_insert(_, _)
ClosedGenVec_insert(self, value) ==
    IF self.free_indices # <<>>
    THEN LET index  == Head(self.free_indices)
             popped == [self EXCEPT !.free_indices = Tail(@)]
         IN  IF index < Len(self.items) /\ ~self.items[index + 1].some
             THEN [self |-> [popped EXCEPT !.items[index + 1] = Item(value, self.generation),
                                           !.length = @ + 1],
                   ret  |-> Index(index, self.generation)]
             ELSE ClosedGenVec_insert(popped, value)
    ELSE [self |-> [self EXCEPT !.items = Append(@, Item(value, self.generation)),
                                !.length = @ + 1],
          ret  |-> Index(Len(self.items), self.generation)]

\* Variant of remove that does not compare generations.
ClosedGenVec_remove_any_generation(self, index) ==
    IF index.index < Len(self.items)
       /\ self.items[index.index + 1].some
    THEN [self |-> [self EXCEPT !.items[index.index + 1] = NoneItem,
                                !.generation = @ + 1,
                                !.length = IF @ > 0 THEN @ - 1 ELSE 0,
                                !.free_indices = Append(@, index.index)],
          ret  |-> Some(self.items[index.index + 1].value)]
    ELSE [self |-> self, ret |-> None]

\* Variant of remove that leaves the generation counter as it is.
ClosedGenVec_remove_same_generation(self, index) ==
    IF index.index < Len(self.items)
       /\ self.items[index.index + 1].some
       /\ index.generation = self.items[index.index + 1].generation
    THEN [self |-> [self EXCEPT !.items[index.index + 1] = NoneItem,
                                !.length = IF @ > 0 THEN @ - 1 ELSE 0,
                                !.free_indices = Append(@, index.index)],
          ret  |-> Some(self.items[index.index + 1].value)]
    ELSE [self |-> self, ret |-> None]

\* ClosedGenVec::remove; the result is the store afterwards and the Option returned
ClosedGenVec_remove(self, index) ==
    IF index.index < Len(self.items)
       /\ self.items[index.index + 1].some
       /\ index.generation = self.items[index.index + 1].generation
    THEN [self |-> [self EXCEPT !.items[index.index + 1] = NoneItem,
                                !.generation = @ + 1,
                                !.length = IF @ > 0 THEN @ - 1 ELSE 0,
                                !.free_indices = Append(@, index.index)],
          ret  |-> Some(self.items[index.index + 1].value)]
    ELSE [self |-> self, ret |-> None]

\* Variant of clear that leaves the items in place.
ClosedGenVec_clear_keep_items(self) ==
    [self EXCEPT !.free_indices = RangeSeq(0, Len(self.items)),
                 !.length = 0,
                 !.generation = @ + 1]

\* Variant of clear that starts the generation counter again at 0.
ClosedGenVec_clear_reset_generation(self) ==
    [self EXCEPT !.free_indices = RangeSeq(0, Len(self.items)),
                 !.items = <<>>,
                 !.length = 0,
                 !.generation = 0]

\* Variant of clear that leaves the generation counter as it is.
ClosedGenVec_clear_same_generation(self) ==
    [self EXCEPT !.free_indices = RangeSeq(0, Len(self.items)),
                 !.items = <<>>,
                 !.length = 0]

\* Variant of clear that leaves the length counter as it is.
ClosedGenVec_clear_keep_length(self) ==
    [self EXCEPT !.free_indices = RangeSeq(0, Len(self.items)),
                 !.items = <<>>,
                 !.generation = @ + 1]

\* ClosedGenVec::clear
ClosedGenVec_clear(self) ==
    [self EXCEPT !.free_indices = RangeSeq(0, Len(self.items)),
                 !.items = <<>>,
                 !.length = 0,
                 !.generation = @ + 1]

\* ClosedGenVec::reserve
ClosedGenVec_reserve(self, additional) ==
    IF additional > 0 /\ Len(self.items) > 0
    THEN LET last_index == Len(self.items) - 1
         IN  [self EXCEPT !.free_indices = @ \o RangeSeq(last_index, additional),
                          !.items = @ \o [k \in 1..additional |-> NoneItem]]
    ELSE self

\* *value = v through the reference get_mut / index_mut returns
ClosedGenVec_write(self, index, value) ==
    IF ClosedGenVec_get_mut(self, index).some
    THEN [self EXCEPT !.items[index.index + 1].value = value]
    ELSE self

\* Variant of index that falls back to a default value instead of panicking.
ClosedGenVec_index_or_default(self, index) ==
    [panic |-> FALSE, value |-> ClosedGenVec_get(self, index).value]

\* Index<Index>::index of ClosedGenVec: vec[index]
ClosedGenVec_index(self, index) == Option_expect(ClosedGenVec_get(self, index))

\* IndexMut<Index>::index_mut of ClosedGenVec: &mut vec[index]
ClosedGenVec_index_mut(self, index) == Option_expect(ClosedGenVec_get_mut(self, index))

\* Whether ClosedGenVec::remove panics: in its matching arm it indexes
\* items[index.index] and calls expect on the Option taken out of it
ClosedGenVec_remove_panics(self, index) ==
    IF index.index < Len(self.items)
       /\ self.items[index.index + 1].some
       /\ index.generation = self.items[index.index + 1].generation
    THEN \/ index.index >= Len(self.items)
         \/ Option_expect([some |-> self.items[index.index + 1].some,
                           value |-> self.items[index.index + 1].value]).panic
    ELSE FALSE

\* Variant of Iter::next that labels the pair with the store-wide generation.
RECURSIVE ClosedGenVec_Iter_next_store_generation(_, _)
ClosedGenVec_Iter_next_store_generation(self, cursor) ==
    IF cursor >= Len(self.items)
    THEN [cursor |-> cursor, ret |-> None]
    ELSE IF self.items[cursor + 1].some
         THEN [cursor |-> cursor + 1,
               ret    |-> Some([index |-> Index(cursor, self.generation),
                                value |-> self.items[cursor + 1].value])]
         ELSE ClosedGenVec_Iter_next_store_generation(self, cursor + 1)

\* Iter::next of ClosedGenVec: cursor is the position the enumeration stands at; the
\* result is the cursor afterwards and the Option<(Index, &T)> returned
RECURSIVE ClosedGenVec_Iter_next(_, _)
ClosedGenVec_Iter_next(self, cursor) ==
    IF cursor >= Len(self.items)
    THEN [cursor |-> cursor, ret |-> None]
    ELSE IF self.items[cursor + 1].some
         THEN [cursor |-> cursor + 1,
               ret    |-> Some([index |-> Index(cursor, self.items[cursor + 1].generation),
                                value |-> self.items[cursor + 1].value])]
         ELSE ClosedGenVec_Iter_next(self, cursor + 1)

\* ClosedGenVec::iter(), as the pairs yielded from the cursor on
RECURSIVE ClosedGenVec_iter(_, _)
ClosedGenVec_iter(self, cursor) ==
    LET r == ClosedGenVec_Iter_next(self, cursor)
    IN  IF r.ret.some THEN <<r.ret.value>> \o ClosedGenVec_iter(self, r.cursor) ELSE <<>>

\* IterMut::next of ClosedGenVec: cursor is the position the enumeration stands at; the
\* result is the cursor afterwards and the Option<(Index, &mut T)> returned
RECURSIVE ClosedGenVec_IterMut_next(_, _)
ClosedGenVec_IterMut_next(self, cursor) ==
    IF cursor >= Len(self.items)
    THEN [cursor |-> cursor, ret |-> None]
    ELSE IF self.items[cursor + 1].some
         THEN [cursor |-> cursor + 1,
               ret    |-> Some([index |-> Index(cursor, self.items[cursor + 1].generation),
                                value |-> self.items[cursor + 1].value])]
         ELSE ClosedGenVec_IterMut_next(self, cursor + 1)

\* ClosedGenVec::iter_mut(), as the pairs yielded from the cursor on
RECURSIVE ClosedGenVec_iter_mut(_, _)
ClosedGenVec_iter_mut(self, cursor) ==
    LET r == ClosedGenVec_IterMut_next(self, cursor)
    IN  IF r.ret.some THEN <<r.ret.value>> \o ClosedGenVec_iter_mut(self, r.cursor) ELSE <<>>

\* IntoIter::next of ClosedGenVec: cursor is the position the enumeration stands at; the
\* result is the cursor afterwards and the Option<(Index, T)> returned
RECURSIVE ClosedGenVec_IntoIter_next(_, _)
ClosedGenVec_IntoIter_next(self, cursor) ==
    IF cursor >= Len(self.items)
    THEN [cursor |-> cursor, ret |-> None]
    ELSE IF self.items[cursor + 1].some
         THEN [cursor |-> cursor + 1,
               ret    |-> Some([index |-> Index(cursor, self.items[cursor + 1].generation),
                                value |-> self.items[cursor + 1].value])]
         ELSE ClosedGenVec_IntoIter_next(self, cursor + 1)

\* ClosedGenVec::into_iter(), as the pairs yielded from the cursor on
RECURSIVE ClosedGenVec_into_iter(_, _)
ClosedGenVec_into_iter(self, cursor) ==
    LET r == ClosedGenVec_IntoIter_next(self, cursor)
    IN  IF r.ret.some THEN <<r.ret.value>> \o ClosedGenVec_into_iter(self, r.cursor) ELSE <<>>

\* ------------------------------------------------- GenerationalVec of gen_vec
\* gen_vec::GenerationalVec::remove, on the same fields as ClosedGenVec; it
\* decrements the counter with `self.length -= 1`, which overflows (a panic or a
\* wrap, by the build) when the counter is 0: overflow tells whether it does.
GenerationalVec_remove(self, index) ==
    IF index.index < Len(self.items)
       /\ self.items[index.index + 1].some
       /\ index.generation = self.items[index.index + 1].generation
    THEN [self |-> [self EXCEPT !.items[index.index + 1] = NoneItem,
                                !.generation = @ + 1,
                                !.length = @ - 1,
                                !.free_indices = Append(@, index.index)],
          ret  |-> Some(self.items[index.index + 1].value),
          overflow |-> self.length = 0]
    ELSE [self |-> self, ret |-> None, overflow |-> FALSE]

\* ------------------------------------------------------------- IndexAllocator
\* IndexAllocator::new
IndexAllocator_new == [free_indices |-> <<>>, active_indices |-> <<>>]

\* IndexAllocator::is_active
IndexAllocator_is_active(self, index) ==
    IF index.index < Len(self.active_indices)
    THEN self.active_indices[index.index + 1].generation = index.generation
         /\ ~self.active_indices[index.index + 1].is_free
    ELSE FALSE

\* Variant of allocate that reuses a record without incrementing its generation.
RECURSIVE IndexAllocator_allocate_same_generation(_)
IndexAllocator_allocate_same_generation(self) ==
    IF self.free_indices # <<>>
    THEN LET index  == Head(self.free_indices)
             popped == [self EXCEPT !.free_indices = Tail(@)]
         IN  IF index < Len(self.active_indices) /\ self.active_indices[index + 1].is_free
             THEN [self |-> [popped EXCEPT !.active_indices[index + 1].is_free = FALSE],
                   ret  |-> Index(index, self.active_indices[index + 1].generation)]
             ELSE IndexAllocator_allocate_same_generation(popped)
    ELSE [self |-> [self EXCEPT !.active_indices = Append(@, AllocatedIndex(FALSE, 0))],
          ret  |-> Index(Len(self.active_indices), 0)]

\* Variant of allocate that appends a record as soon as a popped position
\* cannot be used, instead of trying the next one.
IndexAllocator_allocate_append_on_retry(self) ==
    IF self.free_indices # <<>>
    THEN LET index  == Head(self.free_indices)
             popped == [self EXCEPT !.free_indices = Tail(@)]
         IN  IF index < Len(self.active_indices) /\ self.active_indices[index + 1].is_free
             THEN [self |-> [popped EXCEPT !.active_indices[index + 1] =
                                AllocatedIndex(FALSE, self.active_indices[index + 1].generation + 1)],
                   ret  |-> Index(index, self.active_indices[index + 1].generation + 1)]
             ELSE [self |-> [popped EXCEPT !.active_indices = Append(@, AllocatedIndex(FALSE, 0))],
                   ret  |-> Index(Len(self.active_indices), 0)]
    ELSE [self |-> [self EXCEPT !.active_indices = Append(@, AllocatedIndex(FALSE, 0))],
          ret  |-> Index(Len(self.active_indices), 0)]

\* Variant of allocate that reuses the popped position without looking at is_free.
RECURSIVE IndexAllocator_allocate_ignore_is_free(_)
IndexAllocator_allocate_ignore_is_free(self) ==
    IF self.free_indices # <<>>
    THEN LET index  == Head(self.free_indices)
             popped == [self EXCEPT !.free_indices = Tail(@)]
         IN  IF index < Len(self.active_indices)
             THEN [self |-> [popped EXCEPT !.active_indices[index + 1] =
                                AllocatedIndex(FALSE, self.active_indices[index + 1].generation + 1)],
                   ret  |-> Index(index, self.active_indices[index + 1].generation + 1)]
             ELSE IndexAllocator_allocate_ignore_is_free(popped)
    ELSE [self |-> [self EXCEPT !.active_indices = Append(@, AllocatedIndex(FALSE, 0))],
          ret  |-> Index(Len(self.active_indices), 0)]

\* IndexAllocator::allocate; the result is the allocator afterwards and the Index returned
RECURSIVE IndexAllocator_allocate(_)
IndexAllocator_allocate(self) ==
    IF self.free_indices # <<>>
    THEN LET index  == Head(self.free_indices)
             popped == [self EXCEPT !.free_indices = Tail(@)]
         IN  IF index < Len(self.active_indices) /\ self.active_indices[index + 1].is_free
             THEN [self |-> [popped EXCEPT !.active_indices[index + 1] =
                                AllocatedIndex(FALSE, self.active_indices[index + 1].generation + 1)],
                   ret  |-> Index(index, self.active_indices[index + 1].generation + 1)]
             ELSE IndexAllocator_allocate(popped)
    ELSE [self |-> [self EXCEPT !.active_indices = Append(@, AllocatedIndex(FALSE, 0))],
          ret  |-> Index(Len(self.active_indices), 0)]

\* Variant of deallocate that does not look at is_free.
IndexAllocator_deallocate_ignore_is_free(self, index) ==
    IF index.index < Len(self.active_indices)
       /\ self.active_indices[index.index + 1].generation = index.generation
    THEN [self EXCEPT !.active_indices[index.index + 1].is_free = TRUE,
                      !.free_indices = Append(@, index.index)]
    ELSE self

\* Variant of deallocate that increments the generation when it frees the record.
IndexAllocator_deallocate_bump_generation(self, index) ==
    IF index.index < Len(self.active_indices)
       /\ self.active_indices[index.index + 1].generation = index.generation
       /\ ~self.active_indices[index.index + 1].is_free
    THEN [self EXCEPT !.active_indices[index.index + 1] =
                          AllocatedIndex(TRUE, index.generation + 1),
                      !.free_indices = Append(@, index.index)]
    ELSE self

\* IndexAllocator::deallocate
IndexAllocator_deallocate(self, index) ==
    IF IndexAllocator_is_active(self, index)
    THEN [self EXCEPT !.active_indices[index.index + 1].is_free = TRUE,
                      !.free_indices = Append(@, index.index)]
    ELSE self

\* Variant of deallocate_all that drops the slot records with the free-list.
IndexAllocator_deallocate_all_drop_records(self) ==
    [self EXCEPT !.active_indices = <<>>, !.free_indices = <<>>]

\* IndexAllocator::deallocate_all
IndexAllocator_deallocate_all(self) ==
    [self EXCEPT !.active_indices = [k \in 1..Len(self.active_indices) |->
                                        [self.active_indices[k] EXCEPT !.is_free = TRUE]],
                 !.free_indices = @ \o RangeSeq(0, Len(self.active_indices))]

\* Variant of reserve whose new records start at generation 1.
IndexAllocator_reserve_generation_one(self, additional) ==
    IF additional > 0 /\ Len(self.active_indices) > 0
    THEN LET last_index == Len(self.active_indices) - 1
         IN  [self EXCEPT !.free_indices = @ \o RangeSeq(last_index, additional),
                          !.active_indices = @ \o [k \in 1..additional |-> AllocatedIndex(TRUE, 1)]]
    ELSE self

\* Variant of reserve whose new records are not free.
IndexAllocator_reserve_not_free(self, additional) ==
    IF additional > 0 /\ Len(self.active_indices) > 0
    THEN LET last_index == Len(self.active_indices) - 1
         IN  [self EXCEPT !.free_indices = @ \o RangeSeq(last_index, additional),
                          !.active_indices = @ \o [k \in 1..additional |-> AllocatedIndex(FALSE, 0)]]
    ELSE self

\* IndexAllocator::reserve
IndexAllocator_reserve(self, additional) ==
    IF additional > 0 /\ Len(self.active_indices) > 0
    THEN LET last_index == Len(self.active_indices) - 1
         IN  [self EXCEPT !.free_indices = @ \o RangeSeq(last_index, additional),
                          !.active_indices = @ \o [k \in 1..additional |-> AllocatedIndex(TRUE, 0)]]
    ELSE self

\* IndexAllocator::num_free
IndexAllocator_num_free(self) == Len(self.free_indices)

\* IndexAllocator::num_active
IndexAllocator_num_active(self) ==
    IF Len(self.active_indices) >= Len(self.free_indices)
    THEN Len(self.active_indices) - Len(self.free_indices)
    ELSE 0

\* IndexAllocator::iter, as the sequence of handles the iterator yields
IndexAllocator_iter(self) ==
    SelectSeq([k \in 1..Len(self.active_indices) |->
                  Index(k - 1, self.active_indices[k].generation)],
              LAMBDA h : ~self.active_indices[h.index + 1].is_free)

\* Variant of Iter::next that yields free records as well.
IndexAllocator_Iter_next_any(self, cursor) ==
    IF cursor >= Len(self.active_indices)
    THEN [cursor |-> cursor, ret |-> None]
    ELSE [cursor |-> cursor + 1,
          ret    |-> Some(Index(cursor, self.active_indices[cursor + 1].generation))]

\* Iter::next on allocator.iter(): cursor is the position the enumeration
\* stands at; the result is the cursor afterwards and the Option<Index> returned
RECURSIVE IndexAllocator_Iter_next(_, _)
IndexAllocator_Iter_next(self, cursor) ==
    IF cursor >= Len(self.active_indices)
    THEN [cursor |-> cursor, ret |-> None]
    ELSE IF ~self.active_indices[cursor + 1].is_free
         THEN [cursor |-> cursor + 1,
               ret    |-> Some(Index(cursor, self.active_indices[cursor + 1].generation))]
         ELSE IndexAllocator_Iter_next(self, cursor + 1)

\* IntoIter::next on allocator.into_iter()
RECURSIVE IndexAllocator_IntoIter_next(_, _)
IndexAllocator_IntoIter_next(self, cursor) ==
    IF cursor >= Len(self.active_indices)
    THEN [cursor |-> cursor, ret |-> None]
    ELSE IF ~self.active_indices[cursor + 1].is_free
         THEN [cursor |-> cursor + 1,
               ret    |-> Some(Index(cursor, self.active_indices[cursor + 1].generation))]
         ELSE IndexAllocator_IntoIter_next(self, cursor + 1)

\* for index in allocator.iter(): the handles yielded from the cursor on
RECURSIVE IndexAllocator_Iter_collect(_, _)
IndexAllocator_Iter_collect(self, cursor) ==
    LET r == IndexAllocator_Iter_next(self, cursor)
    IN  IF r.ret.some
        THEN <<r.ret.value>> \o IndexAllocator_Iter_collect(self, r.cursor)
        ELSE <<>>

\* for index in allocator (into_iter): the handles yielded from the cursor on
RECURSIVE IndexAllocator_IntoIter_collect(_, _)
IndexAllocator_IntoIter_collect(self, cursor) ==
    LET r == IndexAllocator_IntoIter_next(self, cursor)
    IN  IF r.ret.some
        THEN <<r.ret.value>> \o IndexAllocator_IntoIter_collect(self, r.cursor)
        ELSE <<>>

\* for index in handles { allocator.deallocate(index) }
RECURSIVE IndexAllocator_deallocate_each(_, _)
IndexAllocator_deallocate_each(self, handles) ==
    IF handles = <<>>
    THEN self
    ELSE IndexAllocator_deallocate_each(IndexAllocator_deallocate(self, Head(handles)),
                                        Tail(handles))

\* ------------------------------------------- IndexAllocator of alloced_gen_vec
\* alloced_gen_vec::IndexAllocator::new
alloced_IndexAllocator_new == [free_indices |-> <<>>, indices |-> <<>>]

\* alloced_gen_vec::IndexAllocator::is_active
alloced_IndexAllocator_is_active(self, index) ==
    IF index.index < Len(self.indices)
    THEN self.indices[index.index + 1].generation = index.generation
         /\ ~self.indices[index.index + 1].is_free
    ELSE FALSE

\* alloced_gen_vec::IndexAllocator::allocate; the result is the allocator
\* afterwards and the Index returned
RECURSIVE alloced_IndexAllocator_allocate(_)
alloced_IndexAllocator_allocate(self) ==
    IF self.free_indices # <<>>
    THEN LET index  == Head(self.free_indices)
             popped == [self EXCEPT !.free_indices = Tail(@)]
         IN  IF index < Len(self.indices) /\ self.indices[index + 1].is_free
             THEN LET generation == self.indices[index + 1].generation + 1
                  IN  [self |-> [popped EXCEPT !.indices[index + 1] =
                                    AllocatedIndex(FALSE, generation)],
                       ret  |-> Index(index, generation + 1)]
             ELSE alloced_IndexAllocator_allocate(popped)
    ELSE [self |-> [self EXCEPT !.indices = Append(@, AllocatedIndex(FALSE, 0))],
          ret  |-> Index(Len(self.indices), 0)]

\* alloced_gen_vec::IndexAllocator::deallocate
alloced_IndexAllocator_deallocate(self, index) ==
    IF /\ index.index < Len(self.indices)
       /\ self.indices[index.index + 1].generation = index.generation
       /\ ~self.indices[index.index + 1].is_free
    THEN [self EXCEPT !.indices[index.index + 1].is_free = TRUE,
                      !.free_indices = Append(@, index.index)]
    ELSE self

\* ------------------------------------------------------------- ExposedGenVec
\* ExposedGenVec::new
ExposedGenVec_new == [items |-> <<>>]

\* Variant of get that does not compare generations.
ExposedGenVec_get_any_generation(self, index) ==
    IF index.index < Len(self.items) /\ self.items[index.index + 1].some
    THEN Some(self.items[index.index + 1].value)
    ELSE None

\* ExposedGenVec::get
ExposedGenVec_get(self, index) ==
    IF index.index < Len(self.items)
       /\ self.items[index.index + 1].some
       /\ self.items[index.index + 1].generation = index.generation
    THEN Some(self.items[index.index + 1].value)
    ELSE None

\* ExposedGenVec::get_mut, as the Option it returns
ExposedGenVec_get_mut(self, index) ==
    IF index.index < Len(self.items)
       /\ self.items[index.index + 1].some
       /\ self.items[index.index + 1].generation = index.generation
    THEN Some(self.items[index.index + 1].value)
    ELSE None

\* Variant of contains that only looks whether the position holds a value.
ExposedGenVec_contains_any_generation(self, index) ==
    index.index < Len(self.items) /\ self.items[index.index + 1].some

\* ExposedGenVec::contains
ExposedGenVec_contains(self, index) == ExposedGenVec_get(self, index).some

\* Variant of the resize that grows the Vec by one position more.
ExposedGenVec_resized_one_more(self, index) ==
    IF Len(self.items) < index.index + 1
    THEN [self EXCEPT !.items = @ \o [k \in 1..(index.index + 2 - Len(self.items)) |-> NoneItem]]
    ELSE self

\* items.resize_with(index.index + 1, || None) of ExposedGenVec::set
ExposedGenVec_resized(self, index) ==
    IF Len(self.items) < index.index + 1
    THEN [self EXCEPT !.items = @ \o [k \in 1..(index.index + 1 - Len(self.items)) |-> NoneItem]]
    ELSE self

\* Variant of set that stores the value under the generation of the resident it replaces.
ExposedGenVec_set_resident_generation(self, index, value) ==
    LET grown == ExposedGenVec_resized(self, index)
        item  == grown.items[index.index + 1]
    IN  IF item.some /\ item.generation <= index.generation
        THEN [self |-> [grown EXCEPT !.items[index.index + 1] = Item(value, item.generation)],
              ret  |-> Some(item.value)]
        ELSE [self |-> [grown EXCEPT !.items[index.index + 1] = Item(value, index.generation)],
              ret  |-> None]

\* ExposedGenVec::set; the result is the store afterwards and the Option returned
ExposedGenVec_set(self, index, value) ==
    LET grown == ExposedGenVec_resized(self, index)
        item  == grown.items[index.index + 1]
    IN  IF item.some /\ item.generation <= index.generation
        THEN [self |-> [grown EXCEPT !.items[index.index + 1] = Item(value, index.generation)],
              ret  |-> Some(item.value)]
        ELSE [self |-> [grown EXCEPT !.items[index.index + 1] = Item(value, index.generation)],
              ret  |-> None]

\* Variant of remove that returns the value and leaves it in the store.
ExposedGenVec_remove_keep_item(self, index) ==
    IF index.index < Len(self.items)
       /\ self.items[index.index + 1].some
       /\ index.generation = self.items[index.index + 1].generation
    THEN [self |-> self, ret |-> Some(self.items[index.index + 1].value)]
    ELSE [self |-> self, ret |-> None]

\* Variant of remove that accepts, as set does, a handle not older than the resident.
ExposedGenVec_remove_not_older(self, index) ==
    IF index.index < Len(self.items)
       /\ self.items[index.index + 1].some
       /\ index.generation >= self.items[index.index + 1].generation
    THEN [self |-> [self EXCEPT !.items[index.index + 1] = NoneItem],
          ret  |-> Some(self.items[index.index + 1].value)]
    ELSE [self |-> self, ret |-> None]

\* ExposedGenVec::remove; the result is the store afterwards and the Option returned
ExposedGenVec_remove(self, index) ==
    IF index.index < Len(self.items)
       /\ self.items[index.index + 1].some
       /\ index.generation = self.items[index.index + 1].generation
    THEN [self |-> [self EXCEPT !.items[index.index + 1] = NoneItem],
          ret  |-> Some(self.items[index.index + 1].value)]
    ELSE [self |-> self, ret |-> None]

\* Index<Index>::index of ExposedGenVec: vec[index]
ExposedGenVec_index(self, index) == Option_expect(ExposedGenVec_get(self, index))

\* IndexMut<Index>::index_mut of ExposedGenVec: &mut vec[index]
ExposedGenVec_index_mut(self, index) == Option_expect(ExposedGenVec_get_mut(self, index))

\* Whether ExposedGenVec::remove panics: in its matching arm it indexes
\* items[index.index] and calls expect on the Option taken out of it
ExposedGenVec_remove_panics(self, index) ==
    IF index.index < Len(self.items)
       /\ self.items[index.index + 1].some
       /\ index.generation = self.items[index.index + 1].generation
    THEN \/ index.index >= Len(self.items)
         \/ Option_expect([some |-> self.items[index.index + 1].some,
                           value |-> self.items[index.index + 1].value]).panic
    ELSE FALSE

\* Iter::next of ExposedGenVec: cursor is the position the enumeration stands at; the
\* result is the cursor afterwards and the Option<(Index, &T)> returned
RECURSIVE ExposedGenVec_Iter_next(_, _)
ExposedGenVec_Iter_next(self, cursor) ==
    IF cursor >= Len(self.items)
    THEN [cursor |-> cursor, ret |-> None]
    ELSE IF self.items[cursor + 1].some
         THEN [cursor |-> cursor + 1,
               ret    |-> Some([index |-> Index(cursor, self.items[cursor + 1].generation),
                                value |-> self.items[cursor + 1].value])]
         ELSE ExposedGenVec_Iter_next(self, cursor + 1)

\* ExposedGenVec::iter(), as the pairs yielded from the cursor on
RECURSIVE ExposedGenVec_iter(_, _)
ExposedGenVec_iter(self, cursor) ==
    LET r == ExposedGenVec_Iter_next(self, cursor)
    IN  IF r.ret.some THEN <<r.ret.value>> \o ExposedGenVec_iter(self, r.cursor) ELSE <<>>

\* IterMut::next of ExposedGenVec: cursor is the position the enumeration stands at; the
\* result is the cursor afterwards and the Option<(Index, &mut T)> returned
RECURSIVE ExposedGenVec_IterMut_next(_, _)
ExposedGenVec_IterMut_next(self, cursor) ==
    IF cursor >= Len(self.items)
    THEN [cursor |-> cursor, ret |-> None]
    ELSE IF self.items[cursor + 1].some
         THEN [cursor |-> cursor + 1,
               ret    |-> Some([index |-> Index(cursor, self.items[cursor + 1].generation),
                                value |-> self.items[cursor + 1].value])]
         ELSE ExposedGenVec_IterMut_next(self, cursor + 1)

\* ExposedGenVec::iter_mut(), as the pairs yielded from the cursor on
RECURSIVE ExposedGenVec_iter_mut(_, _)
ExposedGenVec_iter_mut(self, cursor) ==
    LET r == ExposedGenVec_IterMut_next(self, cursor)
    IN  IF r.ret.some THEN <<r.ret.value>> \o ExposedGenVec_iter_mut(self, r.cursor) ELSE <<>>

\* IntoIter::next of ExposedGenVec: cursor is the position the enumeration stands at; the
\* result is the cursor afterwards and the Option<(Index, T)> returned
RECURSIVE ExposedGenVec_IntoIter_next(_, _)
ExposedGenVec_IntoIter_next(self, cursor) ==
    IF cursor >= Len(self.items)
    THEN [cursor |-> cursor, ret |-> None]
    ELSE IF self.items[cursor + 1].some
         THEN [cursor |-> cursor + 1,
               ret    |-> Some([index |-> Index(cursor, self.items[cursor + 1].generation),
                                value |-> self.items[cursor + 1].value])]
         ELSE ExposedGenVec_IntoIter_next(self, cursor + 1)

\* ExposedGenVec::into_iter(), as the pairs yielded from the cursor on
RECURSIVE ExposedGenVec_into_iter(_, _)
ExposedGenVec_into_iter(self, cursor) ==
    LET r == ExposedGenVec_IntoIter_next(self, cursor)
    IN  IF r.ret.some THEN <<r.ret.value>> \o ExposedGenVec_into_iter(self, r.cursor) ELSE <<>>

\* ------------------------------------------------------------- the program
\* A queue of positions without the position p
Without(queue, p) == SelectSeq(queue, LAMBDA x : x # p)

\* What the caller last did to a position of the ExposedGenVec
Write(op, generation, value, live) ==
    [op |-> op, generation |-> generation, value |-> value, live |-> live]

Systems == {"closed", "allocator", "exposed", "alloced"}

Init ==
    /\ sys \in Systems
    /\ cv = ClosedGenVec_new
    /\ ia = IF sys = "alloced" THEN alloced_IndexAllocator_new ELSE IndexAllocator_new
    /\ ev = ExposedGenVec_new
    /\ cv_issued = [h \in Handles |-> 0]
    /\ cv_last = [p \in Slots |-> [generation |-> -1, removes |-> 0]]
    /\ cv_removed = {}
    /\ ia_issued = [h \in (IF sys = "alloced" THEN AllocedHandles ELSE AllocHandles) |-> 0]
    /\ ia_freed = {}
    /\ cv_free_order = <<>>
    /\ ia_free_order = <<>>
    /\ ev_last = [p \in Slots |-> Write("none", 0, 0, FALSE)]

cv_vars == <<cv, cv_issued, cv_last, cv_removed, cv_free_order>>
ia_vars == <<ia, ia_issued, ia_freed, ia_free_order>>
ev_vars == <<ev, ev_last>>

\* vec.insert(value)
Insert ==
    /\ sys = "closed"
    /\ \E value \in Values :
         LET r == ClosedGenVec_insert(cv, value) IN
         /\ Len(r.self.items) <= MaxSlots
         /\ cv' = r.self
         /\ cv_issued' = [cv_issued EXCEPT ![r.ret] = @ + 1]
         /\ cv_last' = [cv_last EXCEPT ![r.ret.index] =
                           [generation |-> r.ret.generation, removes |-> Cardinality(cv_removed)]]
         /\ cv_free_order' = Without(cv_free_order, r.ret.index)
    /\ UNCHANGED <<sys, cv_removed, ia_vars, ev_vars>>

\* vec.remove(index)
Remove ==
    /\ sys = "closed"
    /\ \E index \in Handles :
         LET r == ClosedGenVec_remove(cv, index) IN
         /\ r.self.generation <= MaxGen
         /\ cv' = r.self
         /\ cv_removed' = IF r.ret.some THEN cv_removed \cup {index} ELSE cv_removed
         /\ cv_free_order' = IF r.ret.some THEN Append(cv_free_order, index.index)
                              ELSE cv_free_order
    /\ UNCHANGED <<sys, cv_issued, cv_last, ia_vars, ev_vars>>

\* vec.clear()
Clear ==
    /\ sys = "closed"
    /\ cv.generation < MaxGen
    /\ cv' = ClosedGenVec_clear(cv)
    /\ cv_free_order' = <<>>
    /\ UNCHANGED <<sys, cv_issued, cv_last, cv_removed, ia_vars, ev_vars>>

\* vec.reserve(additional)
Reserve ==
    /\ sys = "closed"
    /\ \E additional \in 0..MaxReserve :
         /\ Len(cv.items) + additional <= MaxSlots
         /\ cv' = ClosedGenVec_reserve(cv, additional)
    /\ UNCHANGED <<sys, cv_issued, cv_last, cv_removed, cv_free_order, ia_vars, ev_vars>>

\* *vec.get_mut(index).unwrap() = value, or vec[index] = value
GetMut ==
    /\ sys = "closed"
    /\ \E index \in Handles, value \in Values :
         /\ ClosedGenVec_get_mut(cv, index).some
         /\ cv' = ClosedGenVec_write(cv, index, value)
    /\ UNCHANGED <<sys, cv_issued, cv_last, cv_removed, cv_free_order, ia_vars, ev_vars>>

\* allocator.allocate()
Allocate ==
    /\ sys \in {"allocator", "exposed"}
    /\ LET r == IndexAllocator_allocate(ia) IN
         /\ Len(r.self.active_indices) <= MaxSlots
         /\ r.ret.generation <= (IF sys = "exposed" THEN MaxStoreGen ELSE MaxAllocGen)
         /\ ia' = r.self
         /\ ia_issued' = [ia_issued EXCEPT ![r.ret] = @ + 1]
         /\ ia_free_order' = Without(ia_free_order, r.ret.index)
    /\ UNCHANGED <<sys, ia_freed, cv_vars, ev_vars>>

\* allocator.deallocate(index)
Deallocate ==
    /\ sys \in {"allocator", "exposed"}
    /\ \E index \in AllocHandles :
         /\ ia' = IndexAllocator_deallocate(ia, index)
         /\ ia_freed' = IF IndexAllocator_is_active(ia, index)
                        THEN ia_freed \cup {index} ELSE ia_freed
         /\ ia_free_order' = IF IndexAllocator_is_active(ia, index)
                              THEN Append(ia_free_order, index.index) ELSE ia_free_order
    /\ UNCHANGED <<sys, ia_issued, cv_vars, ev_vars>>

\* allocator.deallocate_all()
DeallocateAll ==
    /\ sys = "allocator"
    /\ Len(ia.free_indices) + Len(ia.active_indices) <= MaxFree
    /\ ia' = IndexAllocator_deallocate_all(ia)
    /\ UNCHANGED <<sys, ia_issued, ia_freed, ia_free_order, cv_vars, ev_vars>>

\* allocator.reserve(additional)
AllocatorReserve ==
    /\ sys = "allocator"
    /\ \E additional \in 0..MaxReserve :
         /\ Len(ia.active_indices) + additional <= MaxSlots
         /\ Len(ia.free_indices) + additional <= MaxFree
         /\ ia' = IndexAllocator_reserve(ia, additional)
    /\ UNCHANGED <<sys, ia_issued, ia_freed, ia_free_order, cv_vars, ev_vars>>

\* store.set(index, value), with a handle the allocator issued (it may be stale)
Set ==
    /\ sys = "exposed"
    /\ \E index \in AllocHandles, value \in Values :
         /\ ia_issued[index] > 0
         /\ ev' = ExposedGenVec_set(ev, index, value).self
         /\ ev_last' = [ev_last EXCEPT ![index.index] =
                           Write("set", index.generation, value, IndexAllocator_is_active(ia, index))]
    /\ UNCHANGED <<sys, cv_vars, ia_vars>>

\* store.remove(index), with a handle the allocator issued (it may be stale)
ExposedRemove ==
    /\ sys = "exposed"
    /\ \E index \in AllocHandles :
         LET r == ExposedGenVec_remove(ev, index) IN
         /\ ia_issued[index] > 0
         /\ ev' = r.self
         /\ ev_last' = IF r.ret.some
                       THEN [ev_last EXCEPT ![index.index] =
                                Write("remove", 0, 0, FALSE)]
                       ELSE ev_last
    /\ UNCHANGED <<sys, cv_vars, ia_vars>>

\* allocator.allocate() on the IndexAllocator of alloced_gen_vec
AllocedAllocate ==
    /\ sys = "alloced"
    /\ LET r == alloced_IndexAllocator_allocate(ia) IN
         /\ Len(r.self.indices) <= MaxSlots + 1
         /\ r.self.indices[r.ret.index + 1].generation <= MaxAllocGen
         /\ ia' = r.self
         /\ ia_issued' = [ia_issued EXCEPT ![r.ret] = @ + 1]
    /\ UNCHANGED <<sys, ia_freed, ia_free_order, cv_vars, ev_vars>>

\* allocator.deallocate(index) on the IndexAllocator of alloced_gen_vec
AllocedDeallocate ==
    /\ sys = "alloced"
    /\ \E index \in AllocedHandles :
         /\ ia' = alloced_IndexAllocator_deallocate(ia, index)
         /\ ia_freed' = IF alloced_IndexAllocator_is_active(ia, index)
                        THEN ia_freed \cup {index} ELSE ia_freed
    /\ UNCHANGED <<sys, ia_issued, ia_free_order, cv_vars, ev_vars>>

\* store.set(index, value) by a caller who only sets with handles that are
\* active in the allocator
ProtocolSet ==
    /\ sys = "exposed"
    /\ \E index \in AllocHandles, value \in Values :
         /\ IndexAllocator_is_active(ia, index)
         /\ ev' = ExposedGenVec_set(ev, index, value).self
         /\ ev_last' = [ev_last EXCEPT ![index.index] =
                           Write("set", index.generation, value, TRUE)]
    /\ UNCHANGED <<sys, cv_vars, ia_vars>>

\* store.remove(index); allocator.deallocate(index) by a caller who removes a
\* handle from the store before it deallocates it
ProtocolDeallocate ==
    /\ sys = "exposed"
    /\ \E index \in AllocHandles :
         LET r == ExposedGenVec_remove(ev, index) IN
         /\ ia_issued[index] > 0
         /\ ev' = r.self
         /\ ev_last' = IF r.ret.some
                       THEN [ev_last EXCEPT ![index.index] = Write("remove", 0, 0, FALSE)]
                       ELSE ev_last
         /\ ia' = IndexAllocator_deallocate(ia, index)
         /\ ia_freed' = IF IndexAllocator_is_active(ia, index)
                        THEN ia_freed \cup {index} ELSE ia_freed
         /\ ia_free_order' = IF IndexAllocator_is_active(ia, index)
                              THEN Append(ia_free_order, index.index) ELSE ia_free_order
    /\ UNCHANGED <<sys, ia_issued, cv_vars>>

ClosedNext == Insert \/ Remove \/ Clear \/ Reserve \/ GetMut
ProtocolNext == Allocate \/ ProtocolSet \/ ExposedRemove \/ ProtocolDeallocate
AllocedNext == AllocedAllocate \/ AllocedDeallocate
NoClearNext == Insert \/ Remove \/ Reserve \/ GetMut
AllocatorNext == Allocate \/ Deallocate \/ DeallocateAll \/ AllocatorReserve
ExposedNext == Allocate \/ Deallocate \/ Set \/ ExposedRemove

Next == Insert \/ Remove \/ Clear \/ Reserve \/ GetMut
        \/ Allocate \/ Deallocate \/ DeallocateAll \/ AllocatorReserve
        \/ Set \/ ExposedRemove
        \/ AllocedAllocate \/ AllocedDeallocate
        \/ ProtocolSet \/ ProtocolDeallocate

\* The program builds one of four systems and calls its operations: a
\* ClosedGenVec; an IndexAllocator; an IndexAllocator whose handles, obtained
\* with allocate and retired with deallocate, address an ExposedGenVec; the
\* IndexAllocator of alloced_gen_vec.
\* The initial states of each container
InitClosed == Init /\ sys = "closed"

InitAllocator == Init /\ sys = "allocator"

InitClosedOrAllocator == Init /\ sys \in {"closed", "allocator"}

InitExposed == Init /\ sys = "exposed"

ClosedOrAllocatorNext == ClosedNext \/ AllocatorNext

Spec == Init /\ [][Next]_vars

\* A ClosedGenVec
SpecClosed == InitClosed /\ [][ClosedNext]_vars

\* A ClosedGenVec on which clear is never called
SpecNoClear == InitClosed /\ [][NoClearNext]_vars

\* An IndexAllocator
SpecAllocator == InitAllocator /\ [][AllocatorNext]_vars

\* A ClosedGenVec, or an IndexAllocator
SpecClosedOrAllocator == InitClosedOrAllocator /\ [][ClosedOrAllocatorNext]_vars

\* An IndexAllocator and an ExposedGenVec addressed with its handles
SpecExposed == InitExposed /\ [][ExposedNext]_vars

\* An IndexAllocator and an ExposedGenVec whose caller sets only with active
\* handles, removes a handle from the store before deallocating it, and never
\* calls deallocate_all
SpecProtocol == InitExposed /\ [][ProtocolNext]_vars

\* The IndexAllocator of alloced_gen_vec
InitAlloced == Init /\ sys = "alloced"

SpecAlloced == InitAlloced /\ [][AllocedNext]_vars

\* A ClosedGenVec, or an ExposedGenVec with its IndexAllocator
InitStore == Init /\ sys \in {"closed", "exposed"}

StoreNext == ClosedNext \/ ExposedNext

SpecStore == InitStore /\ [][StoreNext]_vars

\* ------------------------------------------------------------- claims
\* C1: ClosedGenVec: once remove(h) has returned Some, get(h), get_mut(h) and
\* contains(h) report None / false in every later state, also when a later insert
\* reuses h's position; no later insert returns h.
C1_RemovedStaysInvalid ==
    \A h \in cv_removed :
        /\ ClosedGenVec_get(cv, h) = None
        /\ ClosedGenVec_get_mut(cv, h) = None
        /\ ~ClosedGenVec_contains(cv, h)
        /\ \A value \in Values : ClosedGenVec_insert(cv, value).ret # h

\* A removed handle whose position a later insert has filled again.
C1_Witness ==
    \E h \in cv_removed :
        /\ h.index < Len(cv.items)
        /\ cv.items[h.index + 1].some
        /\ cv_last[h.index].generation > h.generation

\* C2: IndexAllocator: once deallocate(h) was applied to an active h, is_active(h)
\* is false in every later state, and no later allocate returns h (a handle
\* allocated later at h's position has another generation).
C2_DeallocatedStaysInactive ==
    \A h \in ia_freed :
        /\ ~IndexAllocator_is_active(ia, h)
        /\ IndexAllocator_allocate(ia).ret # h

\* A deallocated handle whose position has been allocated again.
C2_Witness ==
    \E h \in ia_freed, g \in 0..MaxAllocGen :
        /\ g # h.generation
        /\ ia_issued[Index(h.index, g)] > 0
        /\ IndexAllocator_is_active(ia, Index(h.index, g))

\* C3: two handles returned by distinct allocate (insert) calls that are both
\* valid now are unequal pairs and name different positions.
C3_ValidHandlesUnique ==
    /\ \A h \in AllocHandles :
          IndexAllocator_is_active(ia, h) => ia_issued[h] <= 1
    /\ \A h1, h2 \in AllocHandles :
          (/\ ia_issued[h1] > 0 /\ ia_issued[h2] > 0 /\ h1 # h2
           /\ IndexAllocator_is_active(ia, h1) /\ IndexAllocator_is_active(ia, h2))
          => h1.index # h2.index
    /\ \A h \in Handles :
          ClosedGenVec_contains(cv, h) => cv_issued[h] <= 1
    /\ \A h1, h2 \in Handles :
          (/\ cv_issued[h1] > 0 /\ cv_issued[h2] > 0 /\ h1 # h2
           /\ ClosedGenVec_contains(cv, h1) /\ ClosedGenVec_contains(cv, h2))
          => h1.index # h2.index

\* Two valid handles of one container, one of them issued for a reused position.
C3_Witness ==
    \/ \E h1, h2 \in Handles :
          /\ h1 # h2 /\ h1.generation > 0
          /\ cv_issued[h1] > 0 /\ cv_issued[h2] > 0
          /\ cv_issued[Index(h1.index, 0)] > 0
          /\ ClosedGenVec_contains(cv, h1) /\ ClosedGenVec_contains(cv, h2)
    \/ \E h1, h2 \in AllocHandles :
          /\ h1 # h2 /\ h1.generation > 0
          /\ ia_issued[h1] > 0 /\ ia_issued[h2] > 0
          /\ ia_issued[Index(h1.index, 0)] > 0
          /\ IndexAllocator_is_active(ia, h1) /\ IndexAllocator_is_active(ia, h2)

\* C4: ExposedGenVec.set(h, v), called when position h.index holds a value whose
\* stored generation is strictly greater than h.generation, is ignored: the
\* resident value and its generation stay, and the newer handle still gets it.
C4_StaleSetIgnored ==
    \A h \in AllocHandles, value \in Values :
        (/\ h.index < Len(ev.items)
         /\ ev.items[h.index + 1].some
         /\ ev.items[h.index + 1].generation > h.generation)
        => LET newer == Index(h.index, ev.items[h.index + 1].generation)
               after == ExposedGenVec_set(ev, h, value).self
           IN  /\ after.items[h.index + 1] = ev.items[h.index + 1]
               /\ ExposedGenVec_get(after, newer) = ExposedGenVec_get(ev, newer)

\* C5: ExposedGenVec.remove(h) returns Some(value) and empties position h.index
\* iff that position holds a value whose stored generation equals h.generation;
\* otherwise (empty, out of range, generation lower or higher) it returns None
\* and leaves the store unchanged.
C5_RemoveExactGeneration ==
    \A h \in AllocHandles :
        LET r == ExposedGenVec_remove(ev, h)
            held == /\ h.index < Len(ev.items)
                    /\ ev.items[h.index + 1].some
                    /\ ev.items[h.index + 1].generation = h.generation
        IN  IF held
            THEN /\ r.ret = Some(ev.items[h.index + 1].value)
                 /\ Len(r.self.items) = Len(ev.items)
                 /\ \A k \in 1..Len(ev.items) :
                       r.self.items[k] = IF k = h.index + 1 THEN NoneItem ELSE ev.items[k]
            ELSE r.ret = None /\ r.self = ev

\* A remove has emptied one position while another holds a value, whose
\* generation is both lower and higher than that of handles the allocator issued.
C5_Witness ==
    \E p, q \in 0..(MaxSlots - 1) :
        /\ ev_last[p].op = "remove"
        /\ q < Len(ev.items) /\ ev.items[q + 1].some
        /\ \E h \in AllocHandles :
              /\ h.index = q /\ ia_issued[h] > 0
              /\ h.generation # ev.items[q + 1].generation

\* C6 as stated: when h0 was allocated, written with store.set(h0, v) and
\* deallocated, and h1 has been allocated at h0's position, store.get(h0) is None
\* although no store.set(h1, _) has been made.
C6_GetNoneBeforeSet ==
    \A h0 \in ia_freed, h1 \in AllocHandles :
        (/\ h1.index = h0.index
         /\ IndexAllocator_is_active(ia, h1)
         /\ ev_last[h0.index].op = "set"
         /\ ev_last[h0.index].generation = h0.generation
         /\ ev_last[h0.index].live)
        => ExposedGenVec_get(ev, h0) = None

\* C6 amended: in that situation store.get(h0) still returns v; it is None once
\* store.set(h1, _) has been made, and then store.get(h1) returns what was set.
C6_GetNoneAfterSet ==
    \A h0 \in ia_freed, h1 \in AllocHandles :
        (h1.index = h0.index /\ IndexAllocator_is_active(ia, h1))
        => LET w == ev_last[h0.index] IN
           /\ (w.op = "set" /\ w.generation = h0.generation /\ w.live)
                 => ExposedGenVec_get(ev, h0) = Some(w.value)
           /\ (w.op = "set" /\ w.generation = h1.generation)
                 => /\ ExposedGenVec_get(ev, h0) = None
                    /\ ExposedGenVec_get(ev, h1) = Some(w.value)

\* h0 was written while active and deallocated, h1 is active at its position and
\* nothing was written there since.
C6_Witness ==
    \E h0 \in ia_freed, h1 \in AllocHandles :
        /\ h1.index = h0.index
        /\ IndexAllocator_is_active(ia, h1)
        /\ ev_last[h0.index].op = "set"
        /\ ev_last[h0.index].generation = h0.generation
        /\ ev_last[h0.index].live

\* The handles an insert step has just returned
cv_returned(h) == cv_issued'[h] # cv_issued[h]

\* C7 as stated: an insert that reuses a position returns a handle whose
\* generation is exactly 1 greater than that of the handle issued before for
\* that position (no clear).
C7_ReuseAddsOne ==
    [][\A h \in Handles :
          (cv_returned(h) /\ cv_last[h.index].generation # -1)
          => h.generation = cv_last[h.index].generation + 1]_vars

\* C7 amended: the generation is greater than that of the handle issued before
\* for the position by the number of successful removes made on the store since
\* that handle was issued, which is at least 1 (no clear).
C7_ReuseAddsRemoves ==
    [][\A h \in Handles :
          (cv_returned(h) /\ cv_last[h.index].generation # -1)
          => /\ h.generation = cv_last[h.index].generation
                                  + (Cardinality(cv_removed) - cv_last[h.index].removes)
             /\ h.generation >= cv_last[h.index].generation + 1]_vars

\* A position was issued again with a generation more than 1 greater.
C7_Witness ==
    \E h \in Handles :
        /\ cv_issued[h] > 0
        /\ cv_last[h.index].generation > h.generation + 1
        /\ ClosedGenVec_contains(cv, Index(h.index, cv_last[h.index].generation))

\* C8: for each position the generations of the handles insert issues for it
\* strictly increase, under insert/remove/clear/reserve, and the store-wide
\* generation counter never decreases.
C8_GenerationsIncrease ==
    [][/\ \A h \in Handles :
             cv_returned(h) => h.generation > cv_last[h.index].generation
       /\ cv'.generation >= cv.generation]_vars

\* A position was issued a third time.
C8_Witness ==
    \E h1, h2 \in Handles :
        /\ h1.index = h2.index /\ h1.generation < h2.generation
        /\ cv_issued[h1] > 0 /\ cv_issued[h2] > 0
        /\ cv_last[h1.index].generation > h2.generation

\* C9: when allocate reuses a position, the record's generation grows by exactly
\* 1 and the handle returned carries the new generation; no other operation
\* changes the generation of an existing record.
C9_AllocateAddsOne ==
    [][/\ Len(ia'.active_indices) >= Len(ia.active_indices)
       /\ \A p \in 0..(Len(ia.active_indices) - 1) :
             LET old == ia.active_indices[p + 1]
                 new == ia'.active_indices[p + 1]
             IN  IF old.is_free /\ ~new.is_free
                 THEN /\ new.generation = old.generation + 1
                      /\ ia_issued'[Index(p, new.generation)] = ia_issued[Index(p, new.generation)] + 1
                      /\ \A h \in AllocHandles :
                            h # Index(p, new.generation) => ia_issued'[h] = ia_issued[h]
                 ELSE new.generation = old.generation]_vars

\* A record was reused twice and is active while the free-list is not empty.
C9_Witness ==
    \E p \in 0..(MaxSlots - 1) :
        /\ ia_issued[Index(p, 1)] > 0 /\ ia_issued[Index(p, 2)] > 0
        /\ IndexAllocator_is_active(ia, Index(p, 2))
        /\ Len(ia.free_indices) > 0

\* C10: get(h) right after h = insert(v) returns v and contains(h) is true; and
\* get(h) keeps its value over every step that is not remove(h), clear() or a
\* write through get_mut(h) / index_mut(h).
C10_InsertGetRoundTrip ==
    /\ [](\A value \in Values :
            LET r == ClosedGenVec_insert(cv, value)
            IN  /\ ClosedGenVec_get(r.self, r.ret) = Some(value)
                /\ ClosedGenVec_contains(r.self, r.ret))
    /\ [][\A h \in Handles :
            ClosedGenVec_get(cv, h).some
            => \/ ClosedGenVec_get(cv', h) = ClosedGenVec_get(cv, h)
               \/ cv' = ClosedGenVec_remove(cv, h).self
               \/ cv' = ClosedGenVec_clear(cv)
               \/ \E value \in Values : cv' = ClosedGenVec_write(cv, h, value)]_vars

\* An issued handle is still valid after another handle was removed and the
\* freed position was given to a later insert.
C10_Witness ==
    \E h, h2 \in Handles :
        /\ cv_issued[h] > 0 /\ cv_issued[h2] > 0
        /\ ClosedGenVec_contains(cv, h) /\ ClosedGenVec_contains(cv, h2)
        /\ h2.generation > h.generation
        /\ cv_issued[Index(h2.index, h.generation)] > 0

\* C11: for every store and every handle h whose generation is not lower than
\* the generation stored at position h.index (an empty position and a position
\* beyond the Vec included), get(h) right after set(h, v) returns v and
\* contains(h) is true.
C11_SetGetRoundTrip ==
    \A h \in AllocHandles, value \in Values :
        (\/ h.index >= Len(ev.items)
         \/ ~ev.items[h.index + 1].some
         \/ h.generation >= ev.items[h.index + 1].generation)
        => LET after == ExposedGenVec_set(ev, h, value).self
           IN  /\ ExposedGenVec_get(after, h) = Some(value)
               /\ ExposedGenVec_contains(after, h)

\* A set with a reissued handle has stored a value that this handle gets and the
\* older handle does not, while another position holds a value of an older
\* generation than a handle issued for it.
C11_Witness ==
    \E p, q \in 0..(MaxSlots - 1) :
        /\ p # q
        /\ ev_last[p].op = "set" /\ ev_last[p].generation > 0
        /\ ExposedGenVec_get(ev, Index(p, ev_last[p].generation)) = Some(ev_last[p].value)
        /\ ~ExposedGenVec_contains(ev, Index(p, 0))
        /\ ExposedGenVec_contains(ev, Index(q, 0))
        /\ ia_issued[Index(q, 1)] > 0

\* C12: ExposedGenVec.set(h, v) returns Some(old) exactly when position h.index
\* held a value old before the call and that value is not stored afterwards, and
\* returns None exactly when no stored value was displaced.
C12_SetReturnsEvicted ==
    \A h \in AllocHandles, value \in Values :
        LET r == ExposedGenVec_set(ev, h, value)
            held == h.index < Len(ev.items) /\ ev.items[h.index + 1].some
            displaced == held /\ r.self.items[h.index + 1] = Item(value, h.generation)
        IN  r.ret = IF displaced THEN Some(ev.items[h.index + 1].value) ELSE None

\* C13: IndexAllocator.deallocate(h) changes nothing (records, their is_free and
\* generation, free-list contents and order) when h's position does not exist,
\* its record has another generation, or the record is already free; so
\* deallocating a handle twice leaves the state of deallocating it once.
C13_DeallocateInactiveNoOp ==
    \A h \in AllocHandles :
        LET once == IndexAllocator_deallocate(ia, h) IN
        /\ (\/ h.index >= Len(ia.active_indices)
            \/ ia.active_indices[h.index + 1].generation # h.generation
            \/ ia.active_indices[h.index + 1].is_free)
           => once = ia
        /\ IndexAllocator_deallocate(once, h) = once

\* A deallocated handle whose record is still free under its generation, and a
\* deallocated handle whose position is active again under a later generation.
C13_Witness ==
    \E h1, h2 \in ia_freed :
        /\ ia.active_indices[h1.index + 1] = AllocatedIndex(TRUE, h1.generation)
        /\ ~ia.active_indices[h2.index + 1].is_free
        /\ ia.active_indices[h2.index + 1].generation > h2.generation

\* C14: ClosedGenVec.remove(h) with an invalid handle (already removed, stale
\* generation, position out of range) returns None and leaves len(), the items,
\* the free-list and the generation counter as they were; a second remove(h)
\* right after a successful remove(h) returns None and changes nothing.
C14_RemoveInvalidNoOp ==
    \A h \in Handles :
        LET first == ClosedGenVec_remove(cv, h) IN
        /\ (\/ h.index >= Len(cv.items)
            \/ ~cv.items[h.index + 1].some
            \/ cv.items[h.index + 1].generation # h.generation)
           => first = [self |-> cv, ret |-> None]
        /\ first.ret.some
           => ClosedGenVec_remove(first.self, h) = [self |-> first.self, ret |-> None]

\* A removed handle whose position is still empty, a removed handle whose
\* position holds a later value, and a handle that is valid.
C14_Witness ==
    \E h1, h2 \in cv_removed, h3 \in Handles :
        /\ h1.index < Len(cv.items) /\ ~cv.items[h1.index + 1].some
        /\ h2.index < Len(cv.items) /\ cv.items[h2.index + 1].some
        /\ cv_issued[h3] > 0 /\ ClosedGenVec_contains(cv, h3)

\* C15: from every reachable allocator state, states with free records included,
\* deallocate_all() leaves the records (is_free, generation) and the free-list
\* that deallocate on every active handle, in ascending position order, leaves;
\* and deallocate_all changes no generation.
C15_DeallocateAllIsDeallocateEach ==
    LET all  == IndexAllocator_deallocate_all(ia)
        each == IndexAllocator_deallocate_each(ia, IndexAllocator_iter(ia))
    IN  /\ all.active_indices = each.active_indices
        /\ all.free_indices = each.free_indices
        /\ \A k \in 1..Len(ia.active_indices) :
               all.active_indices[k].generation = ia.active_indices[k].generation

\* C16: num_active() is the number of records with is_free = false, which is
\* the number of handles iter() yields, in every state reachable with
\* allocate / deallocate / deallocate_all / reserve.
C16_NumActiveCountsActive ==
    /\ IndexAllocator_num_active(ia)
          = Cardinality({k \in 1..Len(ia.active_indices) : ~ia.active_indices[k].is_free})
    /\ IndexAllocator_num_active(ia) = Len(IndexAllocator_iter(ia))

\* C17: num_free() is the number of positions whose record has is_free = true,
\* in every state reachable with allocate / deallocate / deallocate_all / reserve.
C17_NumFreeCountsFree ==
    IndexAllocator_num_free(ia)
        = Cardinality({k \in 1..Len(ia.active_indices) : ia.active_indices[k].is_free})

\* C18: reserve(n) with n > 0 appends exactly n records with is_free = true at
\* positions old_len .. old_len+n-1 and adds exactly those positions to the
\* free-list, so that with no older free entry the next allocate takes the
\* first of the new records.
C18_ReserveAddsFreshRecords ==
    \A additional \in 1..MaxReserve :
        LET old_len == Len(ia.active_indices)
            after   == IndexAllocator_reserve(ia, additional)
        IN  /\ Len(after.active_indices) = old_len + additional
            /\ \A k \in 1..old_len : after.active_indices[k] = ia.active_indices[k]
            /\ \A k \in (old_len + 1)..Len(after.active_indices) :
                   after.active_indices[k].is_free
            /\ after.free_indices = ia.free_indices \o RangeSeq(old_len, additional)
            /\ ia.free_indices = <<>> => IndexAllocator_allocate(after).ret.index = old_len

\* The handles an allocate step has just returned
ia_returned(h) == ia_issued'[h] # ia_issued[h]

\* No handle was issued for the position so far
ia_unused(p) == \A g \in 0..MaxAllocGen : ia_issued[Index(p, g)] = 0

\* C19 as stated: the first handle allocate returns for a position has
\* generation 0, under allocate / deallocate / deallocate_all / reserve.
C19_FirstGenerationZero ==
    [][\A h \in AllocHandles :
          (ia_returned(h) /\ ia_unused(h.index)) => h.generation = 0]_vars

\* C19 amended: the first handle allocate returns for a position has generation
\* 0 when that allocate appends the record, and generation 1 when the record
\* exists already, appended free at generation 0 by reserve.
C19_FirstGenerationByOrigin ==
    [][\A h \in AllocHandles :
          (ia_returned(h) /\ ia_unused(h.index))
          => IF h.index < Len(ia.active_indices)
             THEN /\ ia.active_indices[h.index + 1] = AllocatedIndex(TRUE, 0)
                  /\ h.generation = 1
             ELSE h.generation = 0]_vars

\* The first handle of one position has generation 1, that of another has
\* generation 0.
C19_Witness ==
    \E p, q \in 0..(MaxSlots - 1) :
        /\ ia_issued[Index(p, 0)] = 0 /\ ia_issued[Index(p, 1)] > 0
        /\ ia_issued[Index(q, 0)] > 0

\* C20: after ClosedGenVec.clear(), len() = 0 and is_empty() is true,
\* contains(h) is false for every handle issued before the clear, and the next
\* insert returns a handle at position 0 whose generation is strictly greater
\* than that of every handle issued before the clear.
C20_ClearInvalidatesAll ==
    LET cleared == ClosedGenVec_clear(cv) IN
    /\ ClosedGenVec_len(cleared) = 0
    /\ ClosedGenVec_is_empty(cleared)
    /\ \A h \in Handles : cv_issued[h] > 0 => ~ClosedGenVec_contains(cleared, h)
    /\ \A value \in Values :
          LET r == ClosedGenVec_insert(cleared, value) IN
          /\ r.ret.index = 0
          /\ ClosedGenVec_get(r.self, r.ret) = Some(value)
          /\ \A h \in Handles : cv_issued[h] > 0 => r.ret.generation > h.generation

\* A store of two values was cleared and one value was inserted since: the Vec
\* has one position although a handle for position 1 had been issued.
C20_Witness ==
    /\ Len(cv.items) = 1
    /\ cv.items[1].some
    /\ cv_issued[Index(0, cv.items[1].generation)] > 0
    /\ \E h \in Handles : h.index = 1 /\ cv_issued[h] > 0
    /\ \A h \in Handles :
          (cv_issued[h] > 0 /\ h # Index(0, cv.items[1].generation))
          => /\ ~ClosedGenVec_contains(cv, h)
             /\ h.generation < cv.items[1].generation

\* C21: FIFO reuse in IndexAllocator and ClosedGenVec: when position a was freed
\* (deallocate / remove) before position b and neither has been reused since,
\* the next allocate / insert does not reuse b.
C21_ReuseInFreedOrder ==
    /\ \A i, j \in 1..Len(ia_free_order) :
          i < j => IndexAllocator_allocate(ia).ret.index # ia_free_order[j]
    /\ \A i, j \in 1..Len(cv_free_order) :
          i < j => \A value \in Values :
                      ClosedGenVec_insert(cv, value).ret.index # cv_free_order[j]

\* No remove, clear or reserve has changed the ClosedGenVec: the generation
\* counter is 0, nothing is queued and every position was filled by an insert.
cv_only_inserts ==
    /\ cv.generation = 0
    /\ cv.free_indices = <<>>
    /\ Len(cv.items) = cv.length

\* No deallocate, deallocate_all or reserve has changed the IndexAllocator:
\* nothing is queued and every record is active at generation 0.
ia_only_allocates ==
    /\ ia.free_indices = <<>>
    /\ \A k \in 1..Len(ia.active_indices) :
          ia.active_indices[k] = AllocatedIndex(FALSE, 0)

\* C22: on a ClosedGenVec without remove, clear or reserve, the k-th insert
\* returns {k-1, 0} and len() = k afterwards; on an IndexAllocator without
\* deallocate, deallocate_all or reserve, the k-th allocate returns {k-1, 0}.
C22_KthInsertAtKMinusOne ==
    /\ cv_only_inserts
       => /\ \A h \in Handles :
                cv_issued[h] = IF h.generation = 0 /\ h.index < ClosedGenVec_len(cv)
                               THEN 1 ELSE 0
          /\ \A value \in Values :
                LET r == ClosedGenVec_insert(cv, value) IN
                /\ r.ret = Index(ClosedGenVec_len(cv), 0)
                /\ ClosedGenVec_len(r.self) = ClosedGenVec_len(cv) + 1
    /\ ia_only_allocates
       => /\ \A h \in AllocHandles :
                ia_issued[h] = IF h.generation = 0 /\ h.index < Len(ia.active_indices)
                               THEN 1 ELSE 0
          /\ IndexAllocator_allocate(ia).ret = Index(Len(ia.active_indices), 0)

\* Two inserts, or two allocates, were made and nothing else.
C22_Witness ==
    \/ /\ sys = "closed" /\ cv_only_inserts
       /\ cv_issued[Index(0, 0)] = 1 /\ cv_issued[Index(1, 0)] = 1
       /\ ClosedGenVec_len(cv) = 2
    \/ /\ sys = "allocator" /\ ia_only_allocates
       /\ ia_issued[Index(0, 0)] = 1 /\ ia_issued[Index(1, 0)] = 1

\* C23: iter() and into_iter() of an IndexAllocator yield exactly the handles h
\* with is_active(h), one per active record and carrying its generation, in
\* strictly ascending position order; a traversal reads the allocator only, so
\* a second traversal yields the same sequence.
C23_IterYieldsActive ==
    LET yielded == IndexAllocator_Iter_collect(ia, 0)
        owned   == IndexAllocator_IntoIter_collect(ia, 0)
    IN  /\ \A h \in AllocHandles :
              IndexAllocator_is_active(ia, h) <=> \E i \in 1..Len(yielded) : yielded[i] = h
        /\ \A i \in 1..Len(yielded) : yielded[i] \in AllocHandles
        /\ \A i, j \in 1..Len(yielded) : i < j => yielded[i].index < yielded[j].index
        /\ owned = yielded
        /\ yielded = IndexAllocator_iter(ia)

\* A free record stands before an active record that was reused.
C23_Witness ==
    /\ Len(ia.active_indices) = 2
    /\ ia.active_indices[1].is_free
    /\ ~ia.active_indices[2].is_free
    /\ ia.active_indices[2].generation > 0
    /\ Len(IndexAllocator_Iter_collect(ia, 0)) = 1

\* The pairs are one per occupied position of items, in ascending position
\* order, and each handle gets the value it is paired with.
PairsMatchItems(pairs, items) ==
    /\ \A i, j \in 1..Len(pairs) : i < j => pairs[i].index.index < pairs[j].index.index
    /\ \A p \in 0..(Len(items) - 1) :
          items[p + 1].some <=> \E i \in 1..Len(pairs) : pairs[i].index.index = p
    /\ \A i \in 1..Len(pairs) :
          /\ pairs[i].index.index < Len(items)
          /\ items[pairs[i].index.index + 1]
               = Item(pairs[i].value, pairs[i].index.generation)

\* C24: iter, iter_mut and into_iter of ClosedGenVec and ExposedGenVec yield one
\* (handle, value) pair per occupied position, skipping empty positions, in
\* strictly ascending position order; contains(handle) holds and get(handle) is
\* the value yielded; for ClosedGenVec the number of pairs is len().
C24_StoreIterYieldsOccupied ==
    /\ LET pairs == ClosedGenVec_iter(cv, 0) IN
       /\ PairsMatchItems(pairs, cv.items)
       /\ \A i \in 1..Len(pairs) :
             /\ ClosedGenVec_contains(cv, pairs[i].index)
             /\ ClosedGenVec_get(cv, pairs[i].index) = Some(pairs[i].value)
       /\ Len(pairs) = ClosedGenVec_len(cv)
       /\ ClosedGenVec_iter_mut(cv, 0) = pairs
       /\ ClosedGenVec_into_iter(cv, 0) = pairs
    /\ LET pairs == ExposedGenVec_iter(ev, 0) IN
       /\ PairsMatchItems(pairs, ev.items)
       /\ \A i \in 1..Len(pairs) :
             /\ ExposedGenVec_contains(ev, pairs[i].index)
             /\ ExposedGenVec_get(ev, pairs[i].index) = Some(pairs[i].value)
       /\ ExposedGenVec_iter_mut(ev, 0) = pairs
       /\ ExposedGenVec_into_iter(ev, 0) = pairs

\* A store whose position 0 is empty and whose position 1 holds a value under a
\* generation other than the first.
C24_Witness ==
    \/ /\ Len(cv.items) = 2 /\ ~cv.items[1].some
       /\ cv.items[2].some /\ cv.items[2].generation > 0
       /\ Len(ClosedGenVec_iter(cv, 0)) = 1
    \/ /\ Len(ev.items) = 2 /\ ~ev.items[1].some
       /\ ev.items[2].some /\ ev.items[2].generation > 0
       /\ Len(ExposedGenVec_iter(ev, 0)) = 1

\* C25: store[h] and &mut store[h] of ClosedGenVec and ExposedGenVec give the
\* value get(h) gives when h is valid and panic exactly when get(h) is None;
\* remove does not panic for any handle (get, get_mut and contains hold no
\* operation that can).
C25_IndexPanicsIffGetNone ==
    /\ \A h \in Handles :
          /\ ClosedGenVec_index(cv, h).panic <=> ClosedGenVec_get(cv, h) = None
          /\ ClosedGenVec_index_mut(cv, h).panic <=> ClosedGenVec_get(cv, h) = None
          /\ ClosedGenVec_get(cv, h).some
             => /\ ClosedGenVec_index(cv, h).value = ClosedGenVec_get(cv, h).value
                /\ ClosedGenVec_index_mut(cv, h).value = ClosedGenVec_get_mut(cv, h).value
          /\ ~ClosedGenVec_remove_panics(cv, h)
    /\ \A h \in AllocHandles :
          /\ ExposedGenVec_index(ev, h).panic <=> ExposedGenVec_get(ev, h) = None
          /\ ExposedGenVec_index_mut(ev, h).panic <=> ExposedGenVec_get(ev, h) = None
          /\ ExposedGenVec_get(ev, h).some
             => /\ ExposedGenVec_index(ev, h).value = ExposedGenVec_get(ev, h).value
                /\ ExposedGenVec_index_mut(ev, h).value = ExposedGenVec_get_mut(ev, h).value
          /\ ~ExposedGenVec_remove_panics(ev, h)

\* A store in which indexing by one issued handle gives a value and indexing by
\* another issued handle, of the same position, panics.
C25_Witness ==
    \/ \E h1, h2 \in Handles :
          /\ cv_issued[h1] > 0 /\ cv_issued[h2] > 0 /\ h1.index = h2.index
          /\ ~ClosedGenVec_index(cv, h1).panic
          /\ ClosedGenVec_index(cv, h2).panic
    \/ \E h1, h2 \in AllocHandles :
          /\ ia_issued[h1] > 0 /\ ia_issued[h2] > 0 /\ h1.index = h2.index
          /\ ~ExposedGenVec_index(ev, h1).panic
          /\ ExposedGenVec_index(ev, h2).panic

\* The handles n successive allocate calls return, starting from the allocator self
RECURSIVE IndexAllocator_allocations(_, _)
IndexAllocator_allocations(self, n) ==
    IF n = 0
    THEN <<>>
    ELSE LET r == IndexAllocator_allocate(self)
         IN  <<r.ret>> \o IndexAllocator_allocations(r.self, n - 1)

\* Handles issued by a second IndexAllocator, created with new() and used
\* independently: by MaxSlots allocate calls, and by allocate, deallocate of
\* that handle, allocate.
OtherAllocatorHandles ==
    LET fresh  == IndexAllocator_new
        first  == IndexAllocator_allocate(fresh)
        freed  == IndexAllocator_deallocate(first.self, first.ret)
        again  == IndexAllocator_allocate(freed)
        run    == IndexAllocator_allocations(fresh, MaxSlots)
    IN  {run[k] : k \in 1..Len(run)} \cup {first.ret, again.ret}

\* C26 as stated: a handle issued by another IndexAllocator gets None, and is
\* not contained, in an ExposedGenVec written only with this allocator's handles.
C26_OtherAllocatorGetsNone ==
    \A h \in OtherAllocatorHandles :
        /\ ExposedGenVec_get(ev, h) = None
        /\ ~ExposedGenVec_contains(ev, h)

\* C26 amended: a handle of another IndexAllocator gets the stored value exactly
\* when it equals, in position and generation, the handle of this allocator
\* with which the position was last set and not removed since; it gets None
\* otherwise.
C26_OtherAllocatorGetsEqualHandle ==
    \A h \in OtherAllocatorHandles :
        LET w == ev_last[h.index] IN
        /\ ExposedGenVec_get(ev, h)
             = IF w.op = "set" /\ w.generation = h.generation
               THEN Some(w.value) ELSE None
        /\ ExposedGenVec_contains(ev, h) <=> (w.op = "set" /\ w.generation = h.generation)

\* One handle of the other allocator equals a handle under which the store
\* holds a value, another names a position whose value was stored under a
\* different generation, and a third names a position that was removed.
C26_Witness ==
    \E h1, h2, h3 \in OtherAllocatorHandles :
        /\ ExposedGenVec_get(ev, h1).some
        /\ ev_last[h2.index].op = "set" /\ ev_last[h2.index].generation # h2.generation
        /\ ev_last[h3.index].op = "remove"

\* C27: ExposedGenVec.set(h, v) with h.index beyond the positions of the store
\* grows it to exactly h.index + 1 positions and leaves every new position
\* before h.index empty (get is None there for every generation); for any h it
\* leaves every position other than h.index as it was.
C27_SetGrowsAndFrames ==
    \A h \in AllocHandles, value \in Values :
        LET after == ExposedGenVec_set(ev, h, value).self
            old_len == Len(ev.items)
        IN  /\ Len(after.items) = IF h.index >= old_len THEN h.index + 1 ELSE old_len
            /\ \A p \in 0..(Len(after.items) - 1) :
                   p # h.index
                   => /\ after.items[p + 1] = IF p < old_len THEN ev.items[p + 1] ELSE NoneItem
                      /\ p >= old_len
                         => \A g \in 0..MaxAllocGen :
                               ExposedGenVec_get(after, Index(p, g)) = None

\* A set with the handle of position 1 has grown a store that was never written
\* at position 0, which is empty.
C27_Witness ==
    /\ Len(ev.items) = 2
    /\ ev_last[0].op = "none" /\ ~ev.items[1].some
    /\ ev_last[1].op = "set" /\ ev.items[2].some

\* C28: the slot records of an IndexAllocator are never removed: every step of
\* allocate, deallocate, deallocate_all and reserve leaves at least as many
\* records as before, and the record at each existing position is the record
\* that was there, changed at most in its is_free flag and by one increment of
\* its generation.
C28_RecordsNeverRemoved ==
    [][ /\ Len(ia'.active_indices) >= Len(ia.active_indices)
        /\ \A k \in 1..Len(ia.active_indices) :
              ia'.active_indices[k].generation \in
                  {ia.active_indices[k].generation, ia.active_indices[k].generation + 1}
      ]_vars

\* Handles have been deallocated, every record is free again, and each position
\* that was ever handed out still has its record.
C28_Witness ==
    /\ sys = "allocator"
    /\ ia_freed # {}
    /\ Len(ia.active_indices) >= 2
    /\ \A k \in 1..Len(ia.active_indices) : ia.active_indices[k].is_free
    /\ \A h \in AllocHandles : ia_issued[h] > 0 => h.index < Len(ia.active_indices)

C30_FreeListConsistent ==
    \A k \in 1..Len(ia.free_indices) :
        /\ ia.free_indices[k] < Len(ia.active_indices)
        /\ ia.active_indices[ia.free_indices[k] + 1].is_free
        /\ \A j \in 1..Len(ia.free_indices) :
              j # k => ia.free_indices[j] # ia.free_indices[k]

\* C31: no slot of an IndexAllocator is leaked: in every reachable state the
\* position of every record with is_free is in the free-list, and allocate
\* appends a record only when no existing record is free.
C31_NoLeakedSlots ==
    /\ \A k \in 1..Len(ia.active_indices) :
          ia.active_indices[k].is_free
          => \E j \in 1..Len(ia.free_indices) : ia.free_indices[j] = k - 1
    /\ Len(IndexAllocator_allocate(ia).self.active_indices) > Len(ia.active_indices)
       => \A k \in 1..Len(ia.active_indices) : ~ia.active_indices[k].is_free

\* The handles for which is_active holds: one per record that is not free,
\* with the generation of the record.
IndexAllocator_active(self) ==
    {Index(k - 1, self.active_indices[k].generation) :
        k \in {j \in 1..Len(self.active_indices) : ~self.active_indices[j].is_free}}

\* allocate pops a free-list entry that it cannot use and tries again.
IndexAllocator_allocate_retries(self) ==
    /\ self.free_indices # <<>>
    /\ ~(/\ Head(self.free_indices) < Len(self.active_indices)
         /\ self.active_indices[Head(self.free_indices) + 1].is_free)

\* C32: immediately after h = allocate(), is_active(h) is true, every other
\* handle is active exactly if it was active before, and the number of records
\* that are not free has grown by exactly one, whether h came from the
\* free-list, from a retry or from a newly appended record.
C32_AllocateActivatesOne ==
    LET r == IndexAllocator_allocate(ia)
    IN  /\ IndexAllocator_is_active(r.self, r.ret)
        /\ ~IndexAllocator_is_active(ia, r.ret)
        /\ IndexAllocator_active(r.self) = IndexAllocator_active(ia) \cup {r.ret}
        /\ \A h \in AllocHandles :
              h # r.ret => (IndexAllocator_is_active(r.self, h) <=> IndexAllocator_is_active(ia, h))
        /\ Cardinality({k \in 1..Len(r.self.active_indices) : ~r.self.active_indices[k].is_free})
           = Cardinality({k \in 1..Len(ia.active_indices) : ~ia.active_indices[k].is_free}) + 1

\* Another handle is active and the free-list starts with the position of a
\* record that is not free, followed by a free one: allocate retries and then
\* reuses a record, and its handle is active.
C32_Witness ==
    /\ sys = "allocator"
    /\ IndexAllocator_active(ia) # {}
    /\ IndexAllocator_allocate_retries(ia)
    /\ IndexAllocator_allocate(ia).ret.generation > 0
    /\ IndexAllocator_is_active(IndexAllocator_allocate(ia).self, IndexAllocator_allocate(ia).ret)

\* C33: when allocate of the IndexAllocator of alloced_gen_vec reuses a freed
\* record, the handle it returns carries the generation the record has after
\* the increment, is_active of it is true, and deallocate of it frees the
\* record.
C33_ReusedHandleIsActive ==
    LET r == alloced_IndexAllocator_allocate(ia)
    IN  (sys = "alloced" /\ Len(r.self.indices) = Len(ia.indices))
        => /\ r.ret.generation = r.self.indices[r.ret.index + 1].generation
           /\ alloced_IndexAllocator_is_active(r.self, r.ret)
           /\ alloced_IndexAllocator_deallocate(r.self, r.ret).indices[r.ret.index + 1].is_free

\* The positions of a ClosedGenVec that hold a value.
ClosedGenVec_occupied(self) == {p \in 0..(Len(self.items) - 1) : self.items[p + 1].some}

\* C34: in every state reachable by insert, remove, clear and reserve, len()
\* is the number of occupied positions, which is the number of issued handles
\* for which contains is true; is_empty() holds iff that number is 0; and a
\* remove that succeeds finds the length counter above 0 and takes one off it,
\* with the saturating decrement of ClosedGenVec and with the plain decrement
\* of GenerationalVec alike.
C34_LenCountsOccupied ==
    /\ ClosedGenVec_len(cv) = Cardinality(ClosedGenVec_occupied(cv))
    /\ ClosedGenVec_len(cv)
       = Cardinality({h \in Handles : cv_issued[h] > 0 /\ ClosedGenVec_contains(cv, h)})
    /\ ClosedGenVec_is_empty(cv) <=> ClosedGenVec_occupied(cv) = {}
    /\ \A h \in Handles :
          ClosedGenVec_remove(cv, h).ret.some
          => /\ cv.length > 0
             /\ ClosedGenVec_remove(cv, h).self.length = cv.length - 1
             /\ ~GenerationalVec_remove(cv, h).overflow
             /\ GenerationalVec_remove(cv, h).self = ClosedGenVec_remove(cv, h).self

\* After a remove the store holds a value at some positions and
\* none at others, and a handle it issued is no longer contained.
C34_Witness ==
    /\ sys = "closed"
    /\ cv.length >= 1
    /\ Len(cv.items) > cv.length
    /\ cv_removed # {}
    /\ \E h \in Handles : cv_issued[h] > 0 /\ ~ClosedGenVec_contains(cv, h)

\* insert pops a free-list entry that it cannot use and tries again.
ClosedGenVec_insert_retries(self) ==
    /\ self.free_indices # <<>>
    /\ ~(/\ Head(self.free_indices) < Len(self.items)
         /\ ~self.items[Head(self.free_indices) + 1].some)

\* C35: insert never overwrites live data: in every reachable state, those
\* whose free-list holds an occupied position or a position that does not
\* exist included, every handle for which get returns a value before
\* insert(v) gets the same value after it.
C35_InsertKeepsLiveData ==
    \A value \in Values, h \in Handles :
        ClosedGenVec_get(cv, h).some
        => ClosedGenVec_get(ClosedGenVec_insert(cv, value).self, h) = ClosedGenVec_get(cv, h)

\* The free-list starts with a position that holds a value under a handle the
\* store issued: insert tries again, and the value is still there afterwards.
C35_Witness ==
    /\ sys = "closed"
    /\ ClosedGenVec_insert_retries(cv)
    /\ Head(cv.free_indices) < Len(cv.items)
    /\ \E h \in Handles, value \in Values :
          /\ h.index = Head(cv.free_indices)
          /\ cv_issued[h] > 0
          /\ ClosedGenVec_get(cv, h).some
          /\ ClosedGenVec_get(ClosedGenVec_insert(cv, value).self, h) = ClosedGenVec_get(cv, h)
          /\ ClosedGenVec_insert(cv, value).ret.index # h.index

\* C36: reserve is bookkeeping only: ClosedGenVec.reserve(n) leaves len() and
\* the results of get(h) and contains(h) as they were for every handle h, and
\* IndexAllocator.reserve(n) leaves is_active(h) as it was for every handle h
\* and leaves num_active() as it was.
C36_ReserveIsBookkeeping ==
    \A additional \in 0..(MaxReserve + 1) :
        /\ sys = "closed"
           => LET after == ClosedGenVec_reserve(cv, additional)
              IN  /\ ClosedGenVec_len(after) = ClosedGenVec_len(cv)
                  /\ \A h \in Handles :
                        /\ ClosedGenVec_get(after, h) = ClosedGenVec_get(cv, h)
                        /\ ClosedGenVec_contains(after, h) = ClosedGenVec_contains(cv, h)
        /\ sys = "allocator"
           => LET after == IndexAllocator_reserve(ia, additional)
              IN  /\ IndexAllocator_num_active(after) = IndexAllocator_num_active(ia)
                  /\ \A h \in AllocHandles :
                        IndexAllocator_is_active(after, h) = IndexAllocator_is_active(ia, h)

\* A reserve has appended a free record at the end of an allocator with an
\* active handle, or an empty position at the end of a store that holds a
\* value.
C36_Witness ==
    \/ /\ sys = "allocator"
       /\ Len(ia.active_indices) >= 2
       /\ ia.active_indices[Len(ia.active_indices)] = AllocatedIndex(TRUE, 0)
       /\ ia_unused(Len(ia.active_indices) - 1)
       /\ IndexAllocator_active(ia) # {}
    \/ /\ sys = "closed"
       /\ Len(cv.items) >= 2
       /\ ~cv.items[Len(cv.items)].some
       /\ \A g \in 0..MaxGen : cv_issued[Index(Len(cv.items) - 1, g)] = 0
       /\ cv.length >= 1

C38_ClearKeepsPositions ==
    LET after == ClosedGenVec_clear(cv)
    IN  /\ Len(after.items) = Len(cv.items)
        /\ \A p \in 1..Len(cv.items) : p <= Len(after.items) /\ after.items[p] = NoneItem
        /\ Len(after.free_indices) = Len(after.items)
        /\ \A p \in 0..(Len(after.items) - 1) :
              \E k \in 1..Len(after.free_indices) : after.free_indices[k] = p

\* The number of times allocate calls itself again before it returns: once for
\* each free-list entry it pops and cannot use.
RECURSIVE IndexAllocator_allocate_depth(_)
IndexAllocator_allocate_depth(self) ==
    IF IndexAllocator_allocate_retries(self)
    THEN 1 + IndexAllocator_allocate_depth([self EXCEPT !.free_indices = Tail(@)])
    ELSE 0

\* The number of times insert calls itself again before it returns.
RECURSIVE ClosedGenVec_insert_depth(_)
ClosedGenVec_insert_depth(self) ==
    IF ClosedGenVec_insert_retries(self)
    THEN 1 + ClosedGenVec_insert_depth([self EXCEPT !.free_indices = Tail(@)])
    ELSE 0

\* The sequence without its first n entries.
Drop(queue, n) == SubSeq(queue, n + 1, Len(queue))

\* C39: from every reachable state allocate() and insert() return a handle
\* after at most as many retries as the free-list has entries at the call,
\* each retry taking one entry off the free-list; when no entry of the
\* free-list can be used they append a new position and return its handle.
C39_RetriesBoundedByFreeList ==
    /\ sys = "allocator"
       => LET r == IndexAllocator_allocate(ia)
              n == IndexAllocator_allocate_depth(ia)
          IN  /\ n <= Len(ia.free_indices)
              /\ r.ret.index < Len(r.self.active_indices)
              /\ IF Len(r.self.active_indices) = Len(ia.active_indices)
                 THEN /\ n < Len(ia.free_indices)
                      /\ r.ret.index = ia.free_indices[n + 1]
                      /\ r.self.free_indices = Drop(ia.free_indices, n + 1)
                 ELSE /\ n = Len(ia.free_indices)
                      /\ r.self.free_indices = <<>>
                      /\ r.self.active_indices = Append(ia.active_indices, AllocatedIndex(FALSE, 0))
                      /\ r.ret = Index(Len(ia.active_indices), 0)
    /\ sys = "closed"
       => \A value \in Values :
            LET r == ClosedGenVec_insert(cv, value)
                n == ClosedGenVec_insert_depth(cv)
            IN  /\ n <= Len(cv.free_indices)
                /\ r.ret.index < Len(r.self.items)
                /\ IF Len(r.self.items) = Len(cv.items)
                   THEN /\ n < Len(cv.free_indices)
                        /\ r.ret.index = cv.free_indices[n + 1]
                        /\ r.self.free_indices = Drop(cv.free_indices, n + 1)
                   ELSE /\ n = Len(cv.free_indices)
                        /\ r.self.free_indices = <<>>
                        /\ r.self.items = Append(cv.items, Item(value, cv.generation))
                        /\ r.ret = Index(Len(cv.items), cv.generation)

\* The free-list has two entries or more and none can be used (in the
\* allocator they are positions of records that are not free, in the store
\* positions that do not exist or hold a value): allocate or insert retries
\* once for each entry and then appends.
C39_Witness ==
    \/ /\ sys = "allocator"
       /\ Len(ia.free_indices) >= 2
       /\ IndexAllocator_allocate_depth(ia) = Len(ia.free_indices)
       /\ Len(IndexAllocator_allocate(ia).self.active_indices) = Len(ia.active_indices) + 1
    \/ /\ sys = "closed"
       /\ Len(cv.free_indices) >= 2
       /\ ClosedGenVec_insert_depth(cv) = Len(cv.free_indices)
       /\ \A value \in Values :
             Len(ClosedGenVec_insert(cv, value).self.items) = Len(cv.items) + 1

=============================================================================
